---- MODULE Spec2Model ----
(***************************************************************************)
(* A model of grafatko's Graph class (src/grafatko/graph.py): the node     *)
(* list, the list of Vertex records, the per-node adjacency sets, the      *)
(* component list rebuilt by the recalculate_components decorator, and the *)
(* directed / weighted flags, under the public mutators of the class.      *)
(*                                                                         *)
(* Node objects are the numbers 1..MaxNodeObjs (object identity).  A       *)
(* Vertex object is a record [node_from, node_to, weight].  Node.adjacent  *)
(* is a Python set of Vertex objects compared by identity, all of them     *)
(* leaving the owning node; nothing reads the weight of a Vertex through   *)
(* that set, so it is modelled as the number of Vertex objects per target  *)
(* node (a multiset of targets).                                           *)
(***************************************************************************)
EXTENDS Integers, Sequences, FiniteSets, TLC

\* ---------------------------------------------------------------- bounds
MaxNodeObjs == 3
MaxCalls == 6
MaxCallsAny == 5
MaxCallsDraw == 6
MaxLines == 2
MaxEvents == 6
MaxZooms == 3

NodeObjs == 1..MaxNodeObjs
\* the weights the calls are tried with: add_vertex's default, 1, and another
Weights == {1, 2}

VARIABLES
    directed,    \* Graph.directed
    weighted,    \* Graph.weighted
    nodes,       \* Graph.nodes: list of node objects
    vertices,    \* Graph.vertices: list of Vertex records
    components,  \* Graph.components: None, or a list of sets of nodes
    adjacent,    \* Node.adjacent of every node object
    root,        \* DrawableGraph.root: a node object, 0 for None
    distance_from_root,  \* DrawableGraph.distance_from_root: depth -> list
    text,        \* the string given to from_string: a list of lines of tokens
    loaded,      \* what from_string(text) returned
    exported,    \* what to_string() of the loaded graph returned
    reloaded,    \* what from_string(exported) returned
    stage,       \* how far the load / export / load sequence has come
    dnodes,      \* position, drag and forces of every DrawableNode object
    selected_nodes,  \* Canvas.selected_nodes
    mouse,       \* Canvas.mouse: position (world), left_pressed, right_pressed
    tick,        \* where the running Canvas.update is: loop indices i, j
    log,         \* history: add_force / evaluate_forces calls of the update
    was,         \* history: dnodes before the last step
    snapshot,    \* history: dnodes when the last update was called
    transformation,  \* Canvas.transformation: scale and translation
    zoomed,      \* history: the pointer and the transformation before the zoom
    calls,       \* history: the number of calls made so far
    last,        \* history: the last call and its arguments
    pre          \* history: the graph as it was before the last call

codecVars == <<text, loaded, exported, reloaded, stage>>

canvasVars == <<dnodes, selected_nodes, mouse, tick, log, was, snapshot>>

viewVars == <<transformation, zoomed>>

vars == <<directed, weighted, nodes, vertices, components, adjacent,
         root, distance_from_root, codecVars, canvasVars, viewVars,
         calls, last, pre>>

\* ------------------------------------------------------- sequence helpers
Range(s) == {s[i] : i \in 1..Len(s)}

RemoveAt(s, i) == SubSeq(s, 1, i - 1) \o SubSeq(s, i + 1, Len(s))

RECURSIVE IndexOf(_, _, _)
IndexOf(s, x, i) ==
    IF i > Len(s) THEN 0
    ELSE IF s[i] = x THEN i
    ELSE IndexOf(s, x, i + 1)

\* list.remove(x): drops the first occurrence
ListRemove(s, x) == RemoveAt(s, IndexOf(s, x, 1))

\* the orders in which a Python set of node-keyed objects may be iterated
SetOrders ==
    {s \in [1..MaxNodeObjs -> NodeObjs] :
        \A i, j \in 1..MaxNodeObjs : i # j => s[i] # s[j]}

RECURSIVE Repeat(_, _)
Repeat(x, n) == IF n <= 0 THEN <<>> ELSE <<x>> \o Repeat(x, n - 1)

\* ------------------------------------------------------------------ Node
NoAdjacent == [n \in NodeObjs |-> [m \in NodeObjs |-> 0]]

RECURSIVE AdjacentList(_, _, _)
AdjacentList(row, ord, k) ==
    IF k > Len(ord) THEN <<>>
    ELSE Repeat(ord[k], row[ord[k]]) \o AdjacentList(row, ord, k + 1)

\* Node.get_adjacent_nodes: [v[1] for v in self.adjacent], in set order ord
get_adjacent_nodes(adj, n, ord) == AdjacentList(adj[n], ord, 1)

\* Node.is_adjacent_to
is_adjacent_to(adj, n, m) == adj[n][m] > 0

\* Node._remove_adjacent_node
remove_adjacent_node(adj, n, m) == [adj EXCEPT ![n][m] = 0]

\* Node._add_adjacent
add_adjacent(adj, n, m) == [adj EXCEPT ![n][m] = @ + 1]

\* the targets of n's adjacency, as set([...]) builds them
AdjacentSet(adj, n) == {m \in NodeObjs : adj[n][m] > 0}

\* ---------------------------------------------------------------- Vertex
Vertex(n1, n2, w) == [node_from |-> n1, node_to |-> n2, weight |-> w]

\* ----------------------------------------------------------------- Graph
NoComponents == [none |-> TRUE, sets |-> <<>>]

\* faulty variant: the candidate set is appended without merging
MergeComponents_no_merge(comps, i, component) == Append(comps, component)

\* faulty variant: the scan stops at the first listed set it merges
RECURSIVE MergeComponents_first_only(_, _, _)
MergeComponents_first_only(comps, i, component) ==
    IF i > Len(comps) THEN Append(comps, component)
    ELSE IF comps[i] \cap component # {}
         THEN Append(RemoveAt(comps, i), component \cup comps[i])
         ELSE MergeComponents_first_only(comps, i + 1, component)

\* the while loop of the decorator: merge every listed set meeting component
RECURSIVE MergeComponents(_, _, _)
MergeComponents(comps, i, component) ==
    IF i > Len(comps) THEN Append(comps, component)
    ELSE IF comps[i] \cap component # {}
         THEN MergeComponents(RemoveAt(comps, i), i, component \cup comps[i])
         ELSE MergeComponents(comps, i + 1, component)

RECURSIVE ComponentsFrom(_, _, _, _)
ComponentsFrom(ns, adj, k, comps) ==
    IF k > Len(ns) THEN comps
    ELSE ComponentsFrom(ns, adj, k + 1,
            MergeComponents(comps, 1, {ns[k]} \cup AdjacentSet(adj, ns[k])))

\* the part of the recalculate_components wrapper after the wrapped call
recalculate_components(g) ==
    [g EXCEPT !.components =
        [none |-> FALSE, sets |-> ComponentsFrom(g.nodes, g.adjacent, 1, <<>>)]]

\* Graph.weakly_connected: "T", "F", or "None" when the loop ends unanswered
RECURSIVE WeaklyConnectedFrom(_, _, _, _)
WeaklyConnectedFrom(comps, i, n1, n2) ==
    IF i > Len(comps) THEN "None"
    ELSE IF n1 \in comps[i] /\ n2 \in comps[i] THEN "T"
    ELSE IF n1 \in comps[i] \/ n2 \in comps[i] THEN "F"
    ELSE WeaklyConnectedFrom(comps, i + 1, n1, n2)

weakly_connected(g, n1, n2) == WeaklyConnectedFrom(g.components.sets, 1, n1, n2)

\* Graph.get_weight: the weight of the first record n1 -> n2, 0 for None
RECURSIVE GetWeightFrom(_, _, _, _)
GetWeightFrom(vs, i, n1, n2) ==
    IF i > Len(vs) THEN 0
    ELSE IF vs[i].node_from = n1 /\ vs[i].node_to = n2 THEN vs[i].weight
    ELSE GetWeightFrom(vs, i + 1, n1, n2)

get_weight(g, n1, n2) == GetWeightFrom(g.vertices, 1, n1, n2)

\* Graph.add_node
add_node(g, node) ==
    recalculate_components([g EXCEPT !.nodes = Append(@, node)])

\* faulty variant: the other nodes' adjacency is not cleaned
remove_node_body_keep_adjacent(g, node) ==
    LET Keep(v) == ~(v.node_from = node \/ v.node_to = node)
    IN  [g EXCEPT !.nodes = ListRemove(g.nodes, node),
                  !.vertices = SelectSeq(g.vertices, Keep)]

\* Graph.remove_node (node is in the list; list.remove raises otherwise)
remove_node_body(g, node) ==
    LET ns == ListRemove(g.nodes, node)
        Keep(v) == ~(v.node_from = node \/ v.node_to = node)
        adj == [n \in NodeObjs |->
                   IF n \in Range(ns)
                   THEN [g.adjacent[n] EXCEPT ![node] = 0]
                   ELSE g.adjacent[n]]
    IN  [g EXCEPT !.nodes = ns,
                  !.vertices = SelectSeq(g.vertices, Keep),
                  !.adjacent = adj]

remove_node(g, node) == recalculate_components(remove_node_body(g, node))

\* faulty variant: no check for an existing edge
add_vertex_body_no_dup_check(g, n1, n2, weight) ==
    IF n1 = n2 /\ ~g.directed
    THEN g
    ELSE LET g1 == [g EXCEPT !.vertices = Append(@, Vertex(n1, n2, weight)),
                             !.adjacent = add_adjacent(@, n1, n2)]
         IN  IF ~g.directed
             THEN [g1 EXCEPT !.vertices = Append(@, Vertex(n2, n1, weight)),
                             !.adjacent = add_adjacent(@, n2, n1)]
             ELSE g1

\* Graph.add_vertex, the wrapped function
add_vertex_body(g, n1, n2, weight) ==
    IF (n1 = n2 /\ ~g.directed) \/ is_adjacent_to(g.adjacent, n1, n2)
    THEN g
    ELSE LET g1 == [g EXCEPT !.vertices = Append(@, Vertex(n1, n2, weight)),
                             !.adjacent = add_adjacent(@, n1, n2)]
         IN  IF ~g.directed
             THEN [g1 EXCEPT !.vertices = Append(@, Vertex(n2, n1, weight)),
                             !.adjacent = add_adjacent(@, n2, n1)]
             ELSE g1

add_vertex(g, n1, n2, weight) ==
    recalculate_components(add_vertex_body(g, n1, n2, weight))

\* Graph.remove_vertex, the wrapped function
remove_vertex_body(g, n1, n2) ==
    LET Keep(v) == ~((v.node_from = n1 /\ v.node_to = n2)
                     \/ (~g.directed /\ v.node_from = n2 /\ v.node_to = n1))
        a1 == remove_adjacent_node(g.adjacent, n1, n2)
    IN  [g EXCEPT !.vertices = SelectSeq(g.vertices, Keep),
                  !.adjacent = IF ~g.directed
                               THEN remove_adjacent_node(a1, n2, n1)
                               ELSE a1]

remove_vertex(g, n1, n2) == recalculate_components(remove_vertex_body(g, n1, n2))

\* Graph.toggle_vertex (add_vertex with its default weight 1)
toggle_vertex(g, n1, n2) ==
    IF is_adjacent_to(g.adjacent, n1, n2)
    THEN remove_vertex(g, n1, n2)
    ELSE add_vertex(g, n1, n2, 1)

\* faulty variant: the edge is added again in the direction it already has
RECURSIVE SetDirectedInner_same_way(_, _, _, _)
SetDirectedInner_same_way(g, node, nbrs, j) ==
    IF j > Len(nbrs) THEN g
    ELSE SetDirectedInner_same_way(
            IF node = nbrs[j]
            THEN remove_vertex(g, node, nbrs[j])
            ELSE add_vertex(g, node, nbrs[j], 1),
            node, nbrs, j + 1)

\* faulty variant: only the flag is set
set_directed_flag_only(g, value, ord) == [g EXCEPT !.directed = value]

\* Graph.set_directed: the inner loop over a snapshot of node's neighbours
RECURSIVE SetDirectedInner(_, _, _, _)
SetDirectedInner(g, node, nbrs, j) ==
    IF j > Len(nbrs) THEN g
    ELSE SetDirectedInner(
            IF node = nbrs[j]
            THEN remove_vertex(g, node, nbrs[j])
            ELSE add_vertex(g, nbrs[j], node, 1),
            node, nbrs, j + 1)

RECURSIVE SetDirectedOuter(_, _, _)
SetDirectedOuter(g, i, ord) ==
    IF i > Len(g.nodes) THEN g
    ELSE SetDirectedOuter(
            SetDirectedInner(g, g.nodes[i],
                             get_adjacent_nodes(g.adjacent, g.nodes[i], ord), 1),
            i + 1, ord)

set_directed(g, value, ord) ==
    LET g1 == IF g.directed THEN SetDirectedOuter(g, 1, ord) ELSE g
    IN  [g1 EXCEPT !.directed = value]

\* Graph.set_weighted
set_weighted(g, value) == [g EXCEPT !.weighted = value]

\* Vertex.set_weight on the i-th record of the list
set_weight(g, i, value) == [g EXCEPT !.vertices[i].weight = value]

\* faulty variant: the opposite direction is not toggled
ReorientPair_one_toggle(g, n1, n2) ==
    IF is_adjacent_to(g.adjacent, n1, n2) # is_adjacent_to(g.adjacent, n2, n1)
    THEN toggle_vertex(g, n1, n2)
    ELSE g

\* Graph.reorient: pairs (nodes[i], nodes[j]) with j >= i
ReorientPair(g, n1, n2) ==
    IF is_adjacent_to(g.adjacent, n1, n2) # is_adjacent_to(g.adjacent, n2, n1)
    THEN toggle_vertex(toggle_vertex(g, n1, n2), n2, n1)
    ELSE g

RECURSIVE ReorientFrom(_, _, _)
ReorientFrom(g, i, j) ==
    IF i > Len(g.nodes) THEN g
    ELSE IF j > Len(g.nodes) THEN ReorientFrom(g, i + 1, i + 1)
    ELSE ReorientFrom(ReorientPair(g, g.nodes[i], g.nodes[j]), i, j + 1)

reorient(g) == ReorientFrom(g, 1, 1)

\* faulty variant: only the direction n1 -> n2 is toggled
ComplementPair_one_way(g, n1, n2) == toggle_vertex(g, n1, n2)

\* Graph.complement: pairs (nodes[i], nodes[j]) with j >= i
ComplementPair(g, n1, n2) ==
    LET g1 == toggle_vertex(g, n1, n2)
    IN  IF g1.directed THEN toggle_vertex(g1, n2, n1) ELSE g1

RECURSIVE ComplementFrom(_, _, _)
ComplementFrom(g, i, j) ==
    IF i > Len(g.nodes) THEN g
    ELSE IF j > Len(g.nodes) THEN ComplementFrom(g, i + 1, i + 1)
    ELSE ComplementFrom(ComplementPair(g, g.nodes[i], g.nodes[j]), i, j + 1)

complement(g) == ComplementFrom(g, 1, 1)

\* --------------------------------------------------------- DrawableGraph
\* a dict with integer keys is a function on the set of its keys
EmptyDict == <<>>

\* the for loop over current.get_adjacent_nodes(): st = [queue, dist]
RECURSIVE ForAdjacent(_, _, _, _, _)
ForAdjacent(adjs, k, distance, closed, st) ==
    IF k > Len(adjs) THEN st
    ELSE IF adjs[k] \in closed
         THEN ForAdjacent(adjs, k + 1, distance, closed, st)
         ELSE LET d1 == IF distance \in DOMAIN st.dist
                        THEN st.dist
                        ELSE st.dist @@ (distance :> <<>>)
              IN  ForAdjacent(adjs, k + 1, distance, closed,
                     [queue |-> Append(st.queue, <<adjs[k], distance + 1>>),
                      dist  |-> [d1 EXCEPT ![distance] = Append(@, adjs[k])]])

\* the while loop of the BFS
RECURSIVE WhileQueue(_, _, _, _)
WhileQueue(adj, ord, closed, st) ==
    IF Len(st.queue) = 0 THEN st.dist
    ELSE LET current  == st.queue[1][1]
             distance == st.queue[1][2]
             st1 == ForAdjacent(get_adjacent_nodes(adj, current, ord), 1,
                                distance, closed,
                                [st EXCEPT !.queue = Tail(@)])
         IN  WhileQueue(adj, ord, closed \cup {current}, st1)

\* the part of the recalculate_distance_to_root wrapper after the wrapped
\* call; ord is the iteration order of the adjacency sets
recalculate_distance_to_root(g, ord) ==
    [g EXCEPT !.distance_from_root =
        IF g.root = 0 THEN EmptyDict
        ELSE WhileQueue(g.adjacent, ord, {},
                        [queue |-> <<<<g.root, 1>>>>,
                         dist  |-> (0 :> <<g.root>>)])]

\* DrawableGraph.set_root (None is 0)
d_set_root(g, node, ord) ==
    recalculate_distance_to_root([g EXCEPT !.root = node], ord)

d_add_vertex(g, n1, n2, weight, ord) ==
    recalculate_distance_to_root(add_vertex(g, n1, n2, weight), ord)

d_remove_vertex(g, n1, n2, ord) ==
    recalculate_distance_to_root(remove_vertex(g, n1, n2), ord)

d_add_node(g, node, ord) ==
    recalculate_distance_to_root(add_node(g, node), ord)

\* faulty variant: the root is kept when it is the node removed
d_remove_node_keep_root(g, node, ord) ==
    recalculate_distance_to_root(remove_node(g, node), ord)

d_remove_node(g, node, ord) ==
    LET g1 == IF node = g.root THEN d_set_root(g, 0, ord) ELSE g
    IN  recalculate_distance_to_root(remove_node(g1, node), ord)

\* The inherited methods reach add_vertex and remove_vertex through self,
\* so through the wrapped overrides: the map is the one built after the last
\* such call, over the adjacency the method ends with.  A method that makes
\* no such call leaves the map alone.
d_toggle_vertex(g, n1, n2, ord) ==
    recalculate_distance_to_root(toggle_vertex(g, n1, n2), ord)

d_set_directed(g, value, ord) ==
    IF g.directed /\ \E n \in Range(g.nodes) : AdjacentSet(g.adjacent, n) # {}
    THEN recalculate_distance_to_root(set_directed(g, value, ord), ord)
    ELSE set_directed(g, value, ord)

d_reorient(g, ord) ==
    IF \E i, j \in 1..Len(g.nodes) :
          is_adjacent_to(g.adjacent, g.nodes[i], g.nodes[j])
             # is_adjacent_to(g.adjacent, g.nodes[j], g.nodes[i])
    THEN recalculate_distance_to_root(reorient(g), ord)
    ELSE reorient(g)

d_complement(g, ord) ==
    IF Len(g.nodes) > 0
    THEN recalculate_distance_to_root(complement(g), ord)
    ELSE complement(g)

\* ------------------------------------------------- from_string, to_string
\* A string is the list of its lines and a line the list of the tokens that
\* line.strip().split() gives; to_string joins tokens with single blanks and
\* ends every line with a newline, so it builds the same kind of value.
Arrows == {"->", "<-"}

\* Graph(directed, weighted): the other fields are the dataclass defaults
NewGraph(d, w) ==
    [directed |-> d, weighted |-> w, nodes |-> <<>>, vertices |-> <<>>,
     components |-> NoComponents, adjacent |-> NoAdjacent, root |-> 0,
     distance_from_root |-> EmptyDict]

\* ast.literal_eval on a token: the number, or -1 where it raises
literal_eval(token) ==
    IF token = "5" THEN 5 ELSE IF token = "7" THEN 7
    ELSE IF token = "0" THEN 0 ELSE -1

\* str() of a weight
str(weight) ==
    IF weight = 5 THEN "5" ELSE IF weight = 7 THEN "7"
    ELSE IF weight = 0 THEN "0" ELSE "?"

\* results of from_string: None, a raised exception, or a graph with the
\* labels of its node objects (node k of the list has labels[k])
NoGraph == [kind |-> "None"]
Raised == [kind |-> "raised"]
Loaded(g, labels) == [kind |-> "graph", g |-> g, labels |-> labels]

\* results of to_string: None or a string
NoString == [kind |-> "None"]
String(lines) == [kind |-> "str", lines |-> lines]

\* the node object registered under name in node_dictionary, 0 if none
NodeOf(labels, name) == IndexOf(labels, name, 1)

\* the for loop over node_names: a first occurrence makes a node object
\* (the next unused one) and adds it to the graph
CreateNode(st, name) ==
    IF NodeOf(st.labels, name) # 0 THEN st
    ELSE [st EXCEPT !.labels = Append(@, name),
                    !.g = add_node(@, Len(st.labels) + 1)]

\* one pass of the loop body for a line after the graph exists
ReadLine(st, parts) ==
    LET d == IF st.g.directed THEN 1 ELSE 0
    IN  IF Len(parts) < 2 + d THEN Raised
        ELSE IF st.g.weighted /\ Len(parts) < 3 + d THEN Raised
        ELSE IF st.g.weighted /\ literal_eval(parts[3 + d]) < 0 THEN Raised
        ELSE LET weight == IF ~st.g.weighted THEN 0
                           ELSE literal_eval(parts[3 + d])
                 st1 == CreateNode(CreateNode(st, parts[1]), parts[2 + d])
                 a == NodeOf(st1.labels, parts[1])
                 b == NodeOf(st1.labels, parts[2 + d])
                 n1 == IF parts[2] = "<-" THEN b ELSE a
                 n2 == IF parts[2] = "<-" THEN a ELSE b
             IN  [st1 EXCEPT !.g = add_vertex(@, n1, n2, weight)]

RECURSIVE ReadLines(_, _, _)
ReadLines(st, lines, k) ==
    IF st.kind # "graph" \/ k > Len(lines) THEN st
    ELSE ReadLines(ReadLine(st, lines[k]), lines, k + 1)

\* Graph.from_string.  The filter lets every line through that is not
\* empty and raises IndexError on an empty one.
from_string(lines) ==
    IF Len(lines) = 0 THEN NoGraph
    ELSE IF \E k \in 1..Len(lines) : Len(lines[k]) = 0 THEN Raised
    ELSE IF Len(lines[1]) < 2 THEN Raised
    ELSE LET isDirected == lines[1][2] \in Arrows
             isWeighted == Len(lines[1]) = 3 + (IF isDirected THEN 1 ELSE 0)
         IN  ReadLines(Loaded(NewGraph(isDirected, isWeighted), <<>>), lines, 1)

\* one line of the export
ExportLine(g, l1, arrow, l2, weight) ==
    (IF g.directed THEN <<l1, arrow, l2>> ELSE <<l1, l2>>)
        \o (IF g.weighted THEN <<str(weight)>> ELSE <<>>)

\* the inner loop of to_string for the node n1 = nodes[i]; id holds the
\* addresses of the node objects
RECURSIVE ExportPairs(_, _, _, _, _, _)
ExportPairs(g, labels, id, i, j, string) ==
    IF j > Len(g.nodes) THEN string
    ELSE LET n1 == g.nodes[i]
             n2 == g.nodes[j]
             s1 == IF is_adjacent_to(g.adjacent, n1, n2)
                   THEN Append(string,
                               ExportLine(g, labels[n1], "->", labels[n2],
                                          get_weight(g, n1, n2)))
                   ELSE string
             s2 == IF is_adjacent_to(g.adjacent, n2, n1) /\ g.directed
                   THEN Append(s1,
                               ExportLine(g, labels[n1], "<-", labels[n2],
                                          get_weight(g, n2, n1)))
                   ELSE s1
         IN  IF ~g.directed /\ id[n1] > id[n2]
             THEN ExportPairs(g, labels, id, i, j + 1, string)
             ELSE ExportPairs(g, labels, id, i, j + 1, s2)

\* Graph.to_string of a graph whose nodes all have labels.  The return
\* statement stands in the body of the outer loop, after the inner loop:
\* the function returns in the first pass (i = 0 in the code), and returns
\* None when there is no node.
to_string(g, labels, id) ==
    IF Len(g.nodes) = 0 THEN NoString
    ELSE String(ExportPairs(g, labels, id, 1, 2, <<>>))

\* ---------------------------------------------------------------- Vector
\* Vector components are floats in the code.  The model keeps them in fixed
\* point: a world unit is Unit model units, divisions and square roots
\* round down, and angles are whole quarter turns, whose sine and cosine
\* are whole numbers.
Unit == 10

Vector(x, y) == <<x, y>>

VAdd(u, v) == <<u[1] + v[1], u[2] + v[2]>>

VSub(u, v) == <<u[1] - v[1], u[2] - v[2]>>

VNeg(v) == <<0 - v[1], 0 - v[2]>>

\* Vector.__truediv__ by a number
VDiv(v, k) == <<v[1] \div k, v[2] \div k>>

\* cos and sin of a number of quarter turns
Cos(angle) == <<1, 0, -1, 0>>[(angle % 4) + 1]

Sin(angle) == <<0, 1, 0, -1>>[(angle % 4) + 1]

\* Vector.rotated(angle, point)
rotated(v, angle, point) ==
    LET w == VSub(v, point)
    IN  VAdd(<<w[1] * Cos(angle) - w[2] * Sin(angle),
               w[1] * Sin(angle) + w[2] * Cos(angle)>>, point)

DistanceSquared(u, v) ==
    (u[1] - v[1]) * (u[1] - v[1]) + (u[2] - v[2]) * (u[2] - v[2])

RECURSIVE SqrtFrom(_, _)
SqrtFrom(n, k) == IF (k + 1) * (k + 1) > n THEN k ELSE SqrtFrom(n, k + 1)

\* Vector.distance
distance(u, v) == SqrtFrom(DistanceSquared(u, v), 0)

RECURSIVE VSum(_, _)
VSum(vs, k) == IF k > Len(vs) THEN <<0, 0>> ELSE VAdd(vs[k], VSum(vs, k + 1))

\* ---------------------------------------------------------- DrawableNode
\* the fields of a DrawableNode; drag is NoDrag for None
NoDrag == <<>>

NewDrawableNode(p) == [position |-> p, drag |-> NoDrag, forces |-> <<>>]

is_dragged(node) == node.drag # NoDrag

\* DrawableNode.set_position
set_position(node, p, override_drag) ==
    IF override_drag /\ is_dragged(node)
    THEN [node EXCEPT !.drag = VAdd(@, VSub(node.position, p))]
    ELSE [node EXCEPT !.position =
             VSub(p, IF is_dragged(node) THEN node.drag ELSE <<0, 0>>)]

start_drag(node, mouse_position) ==
    [node EXCEPT !.drag = VSub(mouse_position, node.position)]

stop_drag(node) == [node EXCEPT !.drag = NoDrag]

add_force(node, force) == [node EXCEPT !.forces = Append(@, force)]

\* faulty variant: the forces move a dragged node too
RECURSIVE evaluate_forces_also_dragged(_)
evaluate_forces_also_dragged(node) ==
    IF Len(node.forces) = 0 THEN node
    ELSE evaluate_forces_also_dragged(
            [node EXCEPT !.forces = SubSeq(@, 1, Len(@) - 1),
                         !.position = VAdd(@, node.forces[Len(node.forces)])])

\* DrawableNode.evaluate_forces: the list is emptied from its end
RECURSIVE evaluate_forces(_)
evaluate_forces(node) ==
    IF Len(node.forces) = 0 THEN node
    ELSE LET force == node.forces[Len(node.forces)]
             popped == [node EXCEPT !.forces = SubSeq(@, 1, Len(@) - 1)]
         IN  evaluate_forces(
                IF ~is_dragged(popped)
                THEN [popped EXCEPT !.position = VAdd(@, force)]
                ELSE popped)

\* ------------------------------------------------------------------ Canvas
\* A canvas cv is [g, node, selected_nodes, mouse]: the DrawableGraph, the
\* DrawableNode fields of every node object, the selection list, and the
\* Mouse with its position in world coordinates (None is <<>>).
OneOrder == [i \in 1..MaxNodeObjs |-> i]

\* DrawableGraph.node_at_position: the first node of the list at distance
\* at most 1 (compared by the squares), 0 for None
RECURSIVE NodeAtFrom(_, _, _)
NodeAtFrom(cv, p, k) ==
    IF k > Len(cv.g.nodes) THEN 0
    ELSE IF DistanceSquared(p, cv.node[cv.g.nodes[k]].position) <= Unit * Unit
         THEN cv.g.nodes[k]
         ELSE NodeAtFrom(cv, p, k + 1)

node_at_position(cv, p) == NodeAtFrom(cv, p, 1)

\* Canvas.deselect
deselect(cv) == [cv EXCEPT !.selected_nodes = <<>>]

\* Canvas.select
select(cv, node, shift) ==
    LET cv1 == IF ~shift THEN deselect(cv) ELSE cv
    IN  [cv1 EXCEPT !.selected_nodes = Append(@, node)]

\* Mouse.press, Mouse.release
MousePress(cv, button, p) ==
    [cv EXCEPT !.mouse.position = p,
               !.mouse.left_pressed = IF button = "left" THEN p ELSE @,
               !.mouse.right_pressed = IF button = "right" THEN p ELSE @]

MouseRelease(cv, button, p) ==
    [cv EXCEPT !.mouse.position = p,
               !.mouse.left_pressed = IF button = "left" THEN <<>> ELSE @,
               !.mouse.right_pressed = IF button = "right" THEN <<>> ELSE @]

\* for node in self.selected_nodes: node.start_drag(...)
RECURSIVE StartDragFrom(_, _)
StartDragFrom(cv, k) ==
    IF k > Len(cv.selected_nodes) THEN cv
    ELSE StartDragFrom(
            [cv EXCEPT !.node[cv.selected_nodes[k]] =
                          start_drag(@, cv.mouse.position)], k + 1)

\* for selected_node in self.selected_nodes: toggle_vertex(..., pressed)
RECURSIVE ToggleFrom(_, _, _)
ToggleFrom(cv, pressed, k) ==
    IF k > Len(cv.selected_nodes) THEN cv
    ELSE ToggleFrom(
            [cv EXCEPT !.g = d_toggle_vertex(@, cv.selected_nodes[k], pressed,
                                             OneOrder)],
            pressed, k + 1)

\* Canvas.mousePressEvent; new is the node object DrawableNode(...) makes
mousePressEvent(cv, button, p, shift, new) ==
    LET cv1 == MousePress(cv, button, p)
        pressed == node_at_position(cv1, p)
    IN  IF cv1.mouse.left_pressed # <<>>
        THEN IF pressed # 0
             THEN StartDragFrom(select(cv1, pressed, shift), 1)
             ELSE deselect(cv1)
        ELSE IF cv1.mouse.right_pressed # <<>>
        THEN IF pressed = 0
             THEN ToggleFrom(
                     select([cv1 EXCEPT !.node[new] = NewDrawableNode(p),
                                        !.g = d_add_node(@, new, OneOrder)],
                            new, shift),
                     new, 1)
             ELSE ToggleFrom(cv1, pressed, 1)
        ELSE cv1

\* Canvas.mouseMoveEvent
RECURSIVE MoveDraggedFrom(_, _)
MoveDraggedFrom(cv, k) ==
    IF k > Len(cv.g.nodes) THEN cv
    ELSE MoveDraggedFrom(
            IF is_dragged(cv.node[cv.g.nodes[k]])
            THEN [cv EXCEPT !.node[cv.g.nodes[k]] =
                               set_position(@, cv.mouse.position, FALSE)]
            ELSE cv,
            k + 1)

mouseMoveEvent(cv, p) ==
    MoveDraggedFrom([cv EXCEPT !.mouse.position = p], 1)

\* Canvas.mouseReleaseEvent
RECURSIVE StopDragFrom(_, _)
StopDragFrom(cv, k) ==
    IF k > Len(cv.selected_nodes) THEN cv
    ELSE StopDragFrom(
            [cv EXCEPT !.node[cv.selected_nodes[k]] = stop_drag(@)], k + 1)

mouseReleaseEvent(cv, button, p) ==
    StopDragFrom(MouseRelease(cv, button, p), 1)

\* for node in ...: for selected_node in nodes: rotate if weakly connected
RECURSIVE RotateFrom(_, _, _, _, _)
RotateFrom(cv, angle, pivot, i, k) ==
    IF i > Len(cv.g.nodes) THEN cv
    ELSE IF k > Len(cv.selected_nodes)
         THEN RotateFrom(cv, angle, pivot, i + 1, 1)
         ELSE RotateFrom(
                 IF weakly_connected(cv.g, cv.g.nodes[i], cv.selected_nodes[k])
                       = "T"
                 THEN [cv EXCEPT !.node[cv.g.nodes[i]] =
                          set_position(@, rotated(@.position, angle, pivot),
                                       FALSE)]
                 ELSE cv,
                 angle, pivot, i, k + 1)

\* Canvas.rotate_about_selected (called with a selection that is not empty)
rotate_about_selected(cv, angle) ==
    LET positions == [k \in 1..Len(cv.selected_nodes) |->
                         cv.node[cv.selected_nodes[k]].position]
        pivot == VDiv(VSum(positions, 1), Len(cv.selected_nodes))
    IN  RotateFrom(cv, angle, pivot, 1, 1)

\* Canvas.wheelEvent with shift held
wheelEvent(cv, angle) ==
    IF Len(cv.selected_nodes) # 0 THEN rotate_about_selected(cv, angle) ELSE cv

\* Canvas.repulsion and Canvas.attraction, of and in model units
repulsion(d) == (Unit * Unit * Unit) \div (d * d)

attraction(d) == (8 * Unit - d) \div 10

\* DrawableGraph.is_vertex is not in graph.py; it is taken as "there is a
\* Vertex from n1 to n2"
is_vertex(g, n1, n2) ==
    \E k \in 1..Len(g.vertices) :
        g.vertices[k].node_from = n1 /\ g.vertices[k].node_to = n2

\* n.add_force(force) inside Canvas.update; st is [node, log], log the
\* list of the add_force and evaluate_forces calls of the running update
Queue(st, n, force) ==
    [node |-> [st.node EXCEPT ![n] = add_force(@, force)],
     log  |-> Append(st.log, [op |-> "add_force", node |-> n])]

\* the body of the inner loop of Canvas.update for the pair n1, n2
PairForces(g, st, n1, n2, jitter) ==
    IF weakly_connected(g, n1, n2) # "T" THEN st
    ELSE LET p1 == st.node[n1].position
             p2 == st.node[n2].position
             d == distance(p1, p2)
             to2 == VSub(p2, p1)
             Times(f) == <<(to2[1] * f) \div d, (to2[2] * f) \div d>>
             fr == repulsion(d)
             fa == attraction(d)
             st1 == Queue(Queue(st, n1, VNeg(Times(fr))), n2, Times(fr))
         IN  IF DistanceSquared(p1, p2) = 0 THEN Queue(st, n1, jitter)
             ELSE IF is_vertex(g, n1, n2) \/ is_vertex(g, n2, n1)
                  THEN Queue(Queue(st1, n1, VNeg(Times(fa))), n2, Times(fa))
                  ELSE st1

\* every node evaluated at the end of each pass of the outer loop
Evaluate_every_node(st, n1) ==
    [node |-> [n \in NodeObjs |-> evaluate_forces(st.node[n])],
     log  |-> Append(st.log, [op |-> "evaluate_forces", node |-> n1])]

\* n1.evaluate_forces() at the end of the outer loop's body
Evaluate(st, n1) ==
    [node |-> [st.node EXCEPT ![n1] = evaluate_forces(@)],
     log  |-> Append(st.log, [op |-> "evaluate_forces", node |-> n1])]

\* ------------------------------------------------ CanvasTransformation
\* scale and translation are floats; the model keeps them as exact
\* fractions <<numerator, denominator>> in lowest terms, denominator > 0
RECURSIVE Gcd(_, _)
Gcd(a, b) == IF b = 0 THEN a ELSE Gcd(b, a % b)

Abs(a) == IF a < 0 THEN -a ELSE a

Q(n, d) ==
    LET g == Gcd(Abs(n), Abs(d))
        sign == IF d < 0 THEN -1 ELSE 1
    IN  <<(sign * n) \div g, (sign * d) \div g>>

QAdd(a, b) == Q(a[1] * b[2] + b[1] * a[2], a[2] * b[2])

QSub(a, b) == Q(a[1] * b[2] - b[1] * a[2], a[2] * b[2])

QMul(a, b) == Q(a[1] * b[1], a[2] * b[2])

\* a / b, b not zero
QDiv(a, b) == Q(a[1] * b[2], a[2] * b[1])

\* a Vector of two whole numbers as a Vector of fractions
QVector(x, y) == <<Q(x, 1), Q(y, 1)>>

\* scale: float = 20; translation = Vector(0, 0)
NewTransformation == [scale |-> Q(20, 1), translation |-> QVector(0, 0)]

\* CanvasTransformation.apply: (point - self.translation) / self.scale
apply(t, point) ==
    <<QDiv(QSub(point[1], t.translation[1]), t.scale),
      QDiv(QSub(point[2], t.translation[2]), t.scale)>>

\* zoom that rescales and leaves the translation alone
zoom_scale_only(t, position, power) ==
    [t EXCEPT !.scale = QMul(@, power)]

\* CanvasTransformation.zoom(position, delta); power is 2 ** delta
zoom(t, position, power) ==
    LET previous_scale == t.scale
        scale == QMul(t.scale, power)
        by == QSub(scale, previous_scale)
    IN  [scale |-> scale,
         translation |-> <<QSub(t.translation[1], QMul(position[1], by)),
                           QSub(t.translation[2], QMul(position[2], by))>>]

\* Transformation.translate(delta): self.translation += delta * self.scale
translate(t, delta) ==
    [t EXCEPT !.translation = <<QAdd(@[1], QMul(delta[1], t.scale)),
                                QAdd(@[2], QMul(delta[2], t.scale))>>]

\* Canvas.wheelEvent without shift, the pointer at p on the widget:
\* self.transformation.zoom(self.mouse.get_position(), delta), where
\* Mouse.get_position is self.transformation.apply(self.position)
wheelZoom(t, p, power) == zoom(t, apply(t, p), power)

\* ------------------------------------------------------------ the machine
G == [directed |-> directed, weighted |-> weighted, nodes |-> nodes,
      vertices |-> vertices, components |-> components, adjacent |-> adjacent,
      root |-> root, distance_from_root |-> distance_from_root]

Call(op, n1, n2, weight, value) ==
    [op |-> op, n1 |-> n1, n2 |-> n2, weight |-> weight, value |-> value]

\* the state after a call that returned g2
Becomes(g2, call) ==
    /\ calls' = calls + 1
    /\ directed' = g2.directed
    /\ weighted' = g2.weighted
    /\ nodes' = g2.nodes
    /\ vertices' = g2.vertices
    /\ components' = g2.components
    /\ adjacent' = g2.adjacent
    /\ root' = g2.root
    /\ distance_from_root' = g2.distance_from_root
    /\ last' = call
    /\ pre' = G
    /\ UNCHANGED <<codecVars, canvasVars, viewVars>>

\* no text is being loaded
CodecIdle ==
    /\ text = <<>>
    /\ loaded = NoGraph
    /\ exported = NoString
    /\ reloaded = NoGraph
    /\ stage = "idle"

\* Canvas(): no node, nothing selected, no button held, no update running
NoTick == [i |-> 0, j |-> 0]

CanvasNew ==
    /\ dnodes = [n \in NodeObjs |-> NewDrawableNode(<<0, 0>>)]
    /\ selected_nodes = <<>>
    /\ mouse = [position |-> <<>>, left_pressed |-> <<>>,
                right_pressed |-> <<>>]
    /\ tick = NoTick
    /\ log = <<>>
    /\ was = [n \in NodeObjs |-> NewDrawableNode(<<0, 0>>)]
    /\ snapshot = [n \in NodeObjs |-> NewDrawableNode(<<0, 0>>)]
    /\ transformation = NewTransformation
    /\ zoomed = [position |-> <<>>, before |-> NewTransformation]

\* Graph(): the dataclass defaults
Init ==
    /\ CodecIdle
    /\ CanvasNew
    /\ directed = FALSE
    /\ weighted = FALSE
    /\ nodes = <<>>
    /\ vertices = <<>>
    /\ components = NoComponents
    /\ adjacent = NoAdjacent
    /\ root = 0
    /\ distance_from_root = EmptyDict
    /\ calls = 0
    /\ last = Call("init", 0, 0, 0, FALSE)
    /\ pre = [directed |-> FALSE, weighted |-> FALSE, nodes |-> <<>>,
              vertices |-> <<>>, components |-> NoComponents,
              adjacent |-> NoAdjacent, root |-> 0,
              distance_from_root |-> EmptyDict]

InGraph == Range(nodes)

\* calls stop after MaxCalls
Budget == calls < MaxCalls

\* a node object as Node() makes it: in no list, no record, no adjacency
Pristine(n) ==
    /\ n \notin InGraph
    /\ \A m \in NodeObjs : adjacent[n][m] = 0 /\ adjacent[m][n] = 0
    /\ \A i \in 1..Len(vertices) :
          vertices[i].node_from # n /\ vertices[i].node_to # n

\* add_node(Node()): the new object is the least unused one
AddNode ==
    /\ Budget
    /\ \E n \in NodeObjs : Pristine(n)
    /\ LET n == CHOOSE m \in NodeObjs :
                   Pristine(m) /\ \A k \in NodeObjs : Pristine(k) => m <= k
       IN  Becomes(add_node(G, n), Call("add_node", n, 0, 0, FALSE))

RemoveNode ==
    /\ Budget
    /\ \E h \in InGraph :
          Becomes(remove_node(G, h), Call("remove_node", h, 0, 0, FALSE))

AddVertex ==
    /\ Budget
    /\ \E n1, n2 \in InGraph, w \in Weights :
          Becomes(add_vertex(G, n1, n2, w), Call("add_vertex", n1, n2, w, FALSE))

RemoveVertex ==
    /\ Budget
    /\ \E n1, n2 \in InGraph :
          Becomes(remove_vertex(G, n1, n2), Call("remove_vertex", n1, n2, 0, FALSE))

ToggleVertex ==
    /\ Budget
    /\ \E n1, n2 \in InGraph :
          Becomes(toggle_vertex(G, n1, n2), Call("toggle_vertex", n1, n2, 0, FALSE))

SetDirected ==
    /\ Budget
    /\ \E value \in BOOLEAN, ord \in SetOrders :
          Becomes(set_directed(G, value, ord), Call("set_directed", 0, 0, 0, value))

SetWeighted ==
    /\ Budget
    /\ \E value \in BOOLEAN :
          Becomes(set_weighted(G, value), Call("set_weighted", 0, 0, 0, value))

SetWeight ==
    /\ Budget
    /\ \E i \in 1..Len(vertices), w \in Weights :
          Becomes(set_weight(G, i, w), Call("set_weight", i, 0, w, FALSE))

Reorient ==
    /\ Budget
    /\ Becomes(reorient(G), Call("reorient", 0, 0, 0, FALSE))

Complement ==
    /\ Budget
    /\ Becomes(complement(G), Call("complement", 0, 0, 0, FALSE))

Next ==
    \/ AddNode
    \/ RemoveNode
    \/ AddVertex
    \/ RemoveVertex
    \/ ToggleVertex
    \/ SetDirected
    \/ SetWeighted
    \/ SetWeight
    \/ Reorient
    \/ Complement

Spec == Init /\ [][Next]_vars

\* the same machine with calls that name any node object: add_node of an
\* object that is not in the list (new, or removed earlier), and
\* add_vertex / remove_vertex / toggle_vertex between any two node objects
AddNodeAny ==
    \E n \in NodeObjs \ InGraph :
        Becomes(add_node(G, n), Call("add_node", n, 0, 0, FALSE))

AddVertexAny ==
    \E n1, n2 \in NodeObjs, w \in Weights :
        Becomes(add_vertex(G, n1, n2, w), Call("add_vertex", n1, n2, w, FALSE))

RemoveVertexAny ==
    \E n1, n2 \in NodeObjs :
        Becomes(remove_vertex(G, n1, n2), Call("remove_vertex", n1, n2, 0, FALSE))

ToggleVertexAny ==
    \E n1, n2 \in NodeObjs :
        Becomes(toggle_vertex(G, n1, n2), Call("toggle_vertex", n1, n2, 0, FALSE))

\* calls of the wider kind stop after MaxCallsAny
Short == calls < MaxCallsAny

\* Edge calls name nodes of the graph, and add_node is given any node
\* object that is not in the list: a new one, or one that was removed.
NextAgain ==
    \/ Short /\ AddNodeAny
    \/ Short /\ RemoveNode
    \/ Short /\ AddVertex
    \/ Short /\ RemoveVertex
    \/ Short /\ SetDirected
    \/ Short /\ Reorient
    \/ Short /\ Complement

SpecAgain == Init /\ [][NextAgain]_vars

NextAny ==
    \/ Short /\ AddNodeAny
    \/ Short /\ RemoveNode
    \/ Short /\ AddVertexAny
    \/ Short /\ RemoveVertexAny
    \/ Short /\ ToggleVertexAny
    \/ Short /\ SetDirected
    \/ Short /\ SetWeight
    \/ Short /\ Reorient
    \/ Short /\ Complement

SpecAny == Init /\ [][NextAny]_vars

\* DrawableGraph under valid calls: set_root names a node of the graph or
\* None, add_node gets a new node object
Brief == calls < MaxCallsDraw

NewNode == CHOOSE m \in NodeObjs :
               Pristine(m) /\ \A k \in NodeObjs : Pristine(k) => m <= k

DrawSetRoot ==
    /\ Brief
    /\ \E node \in InGraph \cup {0}, ord \in SetOrders :
          Becomes(d_set_root(G, node, ord), Call("set_root", node, 0, 0, FALSE))

DrawAddNode ==
    /\ Brief
    /\ \E n \in NodeObjs : Pristine(n)
    /\ \E ord \in SetOrders :
          Becomes(d_add_node(G, NewNode, ord),
                  Call("add_node", NewNode, 0, 0, FALSE))

DrawRemoveNode ==
    /\ Brief
    /\ \E h \in InGraph, ord \in SetOrders :
          Becomes(d_remove_node(G, h, ord), Call("remove_node", h, 0, 0, FALSE))

DrawAddVertex ==
    /\ Brief
    /\ \E n1, n2 \in InGraph, ord \in SetOrders :
          Becomes(d_add_vertex(G, n1, n2, 1, ord),
                  Call("add_vertex", n1, n2, 1, FALSE))

DrawRemoveVertex ==
    /\ Brief
    /\ \E n1, n2 \in InGraph, ord \in SetOrders :
          Becomes(d_remove_vertex(G, n1, n2, ord),
                  Call("remove_vertex", n1, n2, 0, FALSE))

DrawToggleVertex ==
    /\ Brief
    /\ \E n1, n2 \in InGraph, ord \in SetOrders :
          Becomes(d_toggle_vertex(G, n1, n2, ord),
                  Call("toggle_vertex", n1, n2, 0, FALSE))

DrawSetDirected ==
    /\ Brief
    /\ \E value \in BOOLEAN, ord \in SetOrders :
          Becomes(d_set_directed(G, value, ord),
                  Call("set_directed", 0, 0, 0, value))

DrawReorient ==
    /\ Brief
    /\ \E ord \in SetOrders :
          Becomes(d_reorient(G, ord), Call("reorient", 0, 0, 0, FALSE))

DrawComplement ==
    /\ Brief
    /\ \E ord \in SetOrders :
          Becomes(d_complement(G, ord), Call("complement", 0, 0, 0, FALSE))

NextDraw ==
    \/ DrawSetRoot
    \/ DrawAddNode
    \/ DrawRemoveNode
    \/ DrawAddVertex
    \/ DrawRemoveVertex
    \/ DrawToggleVertex
    \/ DrawSetDirected
    \/ DrawReorient
    \/ DrawComplement

SpecDraw == Init /\ [][NextDraw]_vars

\* ------------------------------------------------- load, export, load
\* the texts tried: up to MaxLines lines, each two names, with or without
\* an arrow between them and with or without a weight after them, or a
\* single name
Names == {"A", "B", "C"}
WeightTokens == {"5", "7"}

Lines ==
    {<<a>> : a \in Names}
    \cup {<<a, b>> : a, b \in Names}
    \cup {<<a, r, b>> : a, b \in Names, r \in Arrows}
    \cup {<<a, b, w>> : a, b \in Names, w \in WeightTokens}
    \cup {<<a, r, b, w>> : a, b \in Names, r \in Arrows, w \in WeightTokens}

\* the tokens a text has where from_string reads node names
NamesRead(lines) ==
    LET d == IF Len(lines) > 0 /\ Len(lines[1]) > 1 /\ lines[1][2] \in Arrows
             THEN 1 ELSE 0
    IN  UNION {{lines[k][1]} \cup (IF Len(lines[k]) >= 2 + d
                                   THEN {lines[k][2 + d]} ELSE {})
               : k \in 1..Len(lines)}

Texts ==
    {t \in UNION {[1..n -> Lines] : n \in 0..MaxLines} :
        Cardinality(NamesRead(t)) <= MaxNodeObjs}

\* the addresses id() may give the node objects: any order
Addresses == SetOrders

InitCodec ==
    /\ CanvasNew
    /\ text \in Texts
    /\ loaded = NoGraph
    /\ exported = NoString
    /\ reloaded = NoGraph
    /\ stage = "text"
    /\ directed = FALSE
    /\ weighted = FALSE
    /\ nodes = <<>>
    /\ vertices = <<>>
    /\ components = NoComponents
    /\ adjacent = NoAdjacent
    /\ root = 0
    /\ distance_from_root = EmptyDict
    /\ calls = 0
    /\ last = Call("init", 0, 0, 0, FALSE)
    /\ pre = NewGraph(FALSE, FALSE)

graphVars == <<directed, weighted, nodes, vertices, components, adjacent,
              root, distance_from_root, calls, last, pre>>

\* G = Graph.from_string(text)
FromString ==
    /\ stage = "text"
    /\ loaded' = from_string(text)
    /\ stage' = "loaded"
    /\ UNCHANGED <<text, exported, reloaded, graphVars, canvasVars, viewVars>>

\* s = G.to_string()
ToStringOfLoaded ==
    /\ stage = "loaded"
    /\ loaded.kind = "graph"
    /\ \E id \in Addresses :
          exported' = to_string(loaded.g, loaded.labels, id)
    /\ stage' = "exported"
    /\ UNCHANGED <<text, loaded, reloaded, graphVars, canvasVars, viewVars>>

\* Graph.from_string(s)
FromStringAgain ==
    /\ stage = "exported"
    /\ exported.kind = "str"
    /\ reloaded' = from_string(exported.lines)
    /\ stage' = "reloaded"
    /\ UNCHANGED <<text, loaded, exported, graphVars, canvasVars, viewVars>>

NextCodec ==
    \/ FromString
    \/ ToStringOfLoaded
    \/ FromStringAgain

SpecCodec == InitCodec /\ [][NextCodec]_vars

\* ------------------------------------------------- the canvas at work
\* The events of a Canvas: mouse press, move and release, the wheel with
\* shift held, and the timer's update.  An update runs to its end before
\* the next event is handled; the model takes it in steps, one per pass of
\* the inner loop and one per evaluate_forces call, to tell their order.
MousePositions ==
    {Vector(0, 0), Vector(5, 0), Vector(3 * Unit, 0), Vector(6 * Unit, 0)}
Buttons == {"left", "right"}
\* rotation angles, in quarter turns
Angles == {1, 2}
\* Vector(random(), random()), in model units
Jitters == {Vector(0, 0), Vector(3, 7)}

Canvas == [g |-> G, node |-> dnodes, selected_nodes |-> selected_nodes,
           mouse |-> mouse]

\* a mouse presses a button that is up and releases one that is down
Held(button) ==
    IF button = "left" THEN mouse.left_pressed # <<>>
    ELSE mouse.right_pressed # <<>>

Awake == calls < MaxEvents /\ tick = NoTick

\* the state after an event handler that returned cv2
CanvasBecomes(cv2, call) ==
    /\ calls' = calls + 1
    /\ directed' = cv2.g.directed
    /\ weighted' = cv2.g.weighted
    /\ nodes' = cv2.g.nodes
    /\ vertices' = cv2.g.vertices
    /\ components' = cv2.g.components
    /\ adjacent' = cv2.g.adjacent
    /\ root' = cv2.g.root
    /\ distance_from_root' = cv2.g.distance_from_root
    /\ dnodes' = cv2.node
    /\ selected_nodes' = cv2.selected_nodes
    /\ mouse' = cv2.mouse
    /\ last' = call
    /\ pre' = G
    /\ was' = dnodes
    /\ UNCHANGED <<codecVars, viewVars, tick, log, snapshot>>

\* a press makes a node when no left button is held, the right one is, and
\* no node is at the pointer
PressCreates(button, p) ==
    /\ button = "right"
    /\ mouse.left_pressed = <<>>
    /\ node_at_position(Canvas, p) = 0

MousePressEvent ==
    /\ Awake
    /\ \E button \in Buttons, p \in MousePositions, shift \in BOOLEAN :
          /\ ~Held(button)
          /\ PressCreates(button, p) => \E n \in NodeObjs : Pristine(n)
          /\ CanvasBecomes(
                mousePressEvent(Canvas, button, p, shift,
                                IF PressCreates(button, p) THEN NewNode ELSE 0),
                Call("mousePressEvent", button, p, 0, shift))

MouseMoveEvent ==
    /\ Awake
    /\ \E p \in MousePositions :
          CanvasBecomes(mouseMoveEvent(Canvas, p),
                        Call("mouseMoveEvent", 0, p, 0, FALSE))

MouseReleaseEvent ==
    /\ Awake
    /\ mouse.position # <<>>
    /\ \E button \in Buttons :
          /\ Held(button)
          /\ CanvasBecomes(mouseReleaseEvent(Canvas, button, mouse.position),
                        Call("mouseReleaseEvent", button, mouse.position, 0, FALSE))

WheelEvent ==
    /\ Awake
    /\ \E angle \in Angles :
          CanvasBecomes(wheelEvent(Canvas, angle),
                        Call("wheelEvent", angle, 0, 0, TRUE))

\* a step of the running update: st2 is [node, log] after it
UpdateBecomes(st2, tick2, call) ==
    /\ dnodes' = st2.node
    /\ log' = st2.log
    /\ tick' = tick2
    /\ last' = call
    /\ pre' = G
    /\ was' = dnodes
    /\ snapshot' = IF call.op = "update" THEN dnodes ELSE snapshot
    /\ UNCHANGED <<directed, weighted, nodes, vertices, components, adjacent,
                   root, distance_from_root, codecVars, viewVars,
                   selected_nodes, mouse>>

\* Canvas.update is called (forces are enabled, the default)
UpdateStart ==
    /\ Awake
    /\ calls' = calls + 1
    /\ UpdateBecomes([node |-> dnodes, log |-> <<>>], [i |-> 1, j |-> 2],
                     Call("update", 0, 0, 0, FALSE))

\* one pass of the inner loop: the pair nodes[i], nodes[j]
UpdatePair ==
    /\ tick.i \in 1..Len(nodes)
    /\ tick.j <= Len(nodes)
    /\ \E jitter \in Jitters :
          UpdateBecomes(PairForces(G, [node |-> dnodes, log |-> log],
                                   nodes[tick.i], nodes[tick.j], jitter),
                        [tick EXCEPT !.j = @ + 1],
                        Call("pair", nodes[tick.i], nodes[tick.j], 0, FALSE))
    /\ UNCHANGED calls

\* the inner loop is over: n1.evaluate_forces(), then the next n1
UpdateEvaluate ==
    /\ tick.i \in 1..Len(nodes)
    /\ tick.j > Len(nodes)
    /\ UpdateBecomes(Evaluate([node |-> dnodes, log |-> log], nodes[tick.i]),
                     [i |-> tick.i + 1, j |-> tick.i + 2],
                     Call("evaluate_forces", nodes[tick.i], 0, 0, FALSE))
    /\ UNCHANGED calls

\* the outer loop is over: update returns
UpdateEnd ==
    /\ tick.i > Len(nodes)
    /\ UpdateBecomes([node |-> dnodes, log |-> log], NoTick,
                     Call("updated", 0, 0, 0, FALSE))
    /\ UNCHANGED calls

NextCanvas ==
    \/ MousePressEvent
    \/ MouseMoveEvent
    \/ MouseReleaseEvent
    \/ WheelEvent
    \/ UpdateStart
    \/ UpdatePair
    \/ UpdateEvaluate
    \/ UpdateEnd

SpecCanvas == Init /\ [][NextCanvas]_vars

\* ------------------------------------------------- the view at work
\* The wheel without shift zooms about the pointer; translate pans.
\* pointer positions on the widget, in pixels
ScreenPoints == {QVector(0, 0), QVector(40, 0), QVector(100, 60),
                 QVector(-30, 20)}
\* 2 ** delta of the wheel turns taken
Powers == {Q(2, 1), Q(1, 2), Q(3, 2)}
\* pans, in world units
Pans == {QVector(1, 0), QVector(-2, 3)}

Zooming == calls < MaxZooms

\* the state after a call on the transformation that returned t2
ViewBecomes(t2, position, call) ==
    /\ calls' = calls + 1
    /\ transformation' = t2
    /\ zoomed' = [position |-> position, before |-> transformation]
    /\ last' = call
    /\ UNCHANGED <<directed, weighted, nodes, vertices, components, adjacent,
                   root, distance_from_root, pre, codecVars, canvasVars>>

WheelZoom ==
    /\ Zooming
    /\ \E p \in ScreenPoints, power \in Powers :
          ViewBecomes(wheelZoom(transformation, p, power), p,
                      Call("zoom", p, power, 0, FALSE))

Translate ==
    /\ Zooming
    /\ \E delta \in Pans :
          ViewBecomes(translate(transformation, delta), <<>>,
                      Call("translate", delta, 0, 0, FALSE))

NextView ==
    \/ WheelZoom
    \/ Translate

SpecView == Init /\ [][NextView]_vars

\* ---------------------------------------------------------------- claims
\* what the claims speak of
HasEdge(g, a, b) ==
    \E i \in 1..Len(g.vertices) :
        g.vertices[i].node_from = a /\ g.vertices[i].node_to = b

SameComponent(g, a, b) ==
    \E i \in 1..Len(g.components.sets) :
        a \in g.components.sets[i] /\ b \in g.components.sets[i]

\* the nodes joined to a node of S by edge records, direction ignored
RECURSIVE ReachFrom(_, _)
ReachFrom(g, S) ==
    LET T == S \cup {m \in Range(g.nodes) :
                       \E n \in S : HasEdge(g, n, m) \/ HasEdge(g, m, n)}
    IN  IF T = S THEN S ELSE ReachFrom(g, T)

C4_SameWeightBothWays ==
    ~directed =>
        \A a, b \in InGraph : get_weight(G, a, b) = get_weight(G, b, a)

\* C5: add_vertex(a, b) when a -> b exists, add_vertex(a, a) on an undirected
\* graph and remove_vertex(a, b) when no a -> b exists leave the whole graph
\* (nodes, records, weights, adjacency, components, flags) as it was.
C5_NoOpsChangeNothing ==
    /\ (last.op = "add_vertex" /\ HasEdge(pre, last.n1, last.n2)) => G = pre
    /\ (last.op = "add_vertex" /\ last.n1 = last.n2 /\ ~pre.directed) => G = pre
    /\ (last.op = "remove_vertex" /\ ~HasEdge(pre, last.n1, last.n2)) => G = pre

\* add_vertex was called for an existing edge with another weight than the
\* edge has
C5_Witness ==
    /\ last.op = "add_vertex"
    /\ HasEdge(pre, last.n1, last.n2)
    /\ get_weight(pre, last.n1, last.n2) # last.weight

\* C6: after remove_node(h), h is not in the node list, no record starts or
\* ends at h, no node of the graph is adjacent to h, no component contains
\* h, and the records and adjacency between the other nodes are as before.
C6_RemoveNodeRemovesAll ==
    last.op = "remove_node" =>
        LET h == last.n1
            Other(v) == v.node_from # h /\ v.node_to # h
        IN  /\ h \notin InGraph
            /\ nodes = ListRemove(pre.nodes, h)
            /\ ~\E i \in 1..Len(vertices) :
                   vertices[i].node_from = h \/ vertices[i].node_to = h
            /\ \A n \in InGraph : ~is_adjacent_to(adjacent, n, h)
            /\ \A i \in 1..Len(components.sets) : h \notin components.sets[i]
            /\ vertices = SelectSeq(pre.vertices, Other)
            /\ \A n, m \in InGraph : adjacent[n][m] = pre.adjacent[n][m]

\* a node with edges was removed and an edge between two other nodes is left
C6_Witness ==
    /\ last.op = "remove_node"
    /\ Len(vertices) > 0
    /\ Len(pre.vertices) > Len(vertices)
    /\ \E n \in InGraph : is_adjacent_to(pre.adjacent, n, last.n1)

\* C7: add_vertex(a, b) with a or b not in the node list creates no record
\* and no adjacency entry.
C7_UnknownNodeCreatesNothing ==
    (last.op = "add_vertex"
        /\ (last.n1 \notin Range(pre.nodes) \/ last.n2 \notin Range(pre.nodes)))
    => (vertices = pre.vertices /\ adjacent = pre.adjacent)

\* C8: after set_directed(False) on a directed graph there is no self-loop,
\* every edge a -> b between distinct nodes is still there together with
\* b -> a, and no edge joins two nodes that had none in either direction.
C8_SetUndirectedSymmetrizes ==
    (last.op = "set_directed" /\ last.value = FALSE /\ pre.directed) =>
        /\ ~directed
        /\ \A n \in InGraph : ~HasEdge(G, n, n) /\ ~is_adjacent_to(adjacent, n, n)
        /\ \A a, b \in InGraph :
              (a # b /\ HasEdge(pre, a, b)) => (HasEdge(G, a, b) /\ HasEdge(G, b, a))
        /\ \A a, b \in InGraph :
              (~HasEdge(pre, a, b) /\ ~HasEdge(pre, b, a)) => ~HasEdge(G, a, b)

\* the directed graph had a self-loop and a one-way edge
C8_Witness ==
    /\ last.op = "set_directed"
    /\ last.value = FALSE
    /\ pre.directed
    /\ \E n \in InGraph : HasEdge(pre, n, n)
    /\ \E a, b \in InGraph :
          a # b /\ HasEdge(pre, a, b) /\ ~HasEdge(pre, b, a) /\ HasEdge(G, b, a)

\* C9: set_directed(True) leaves records, weights, adjacency and components
\* as they were and sets the flag.
C9_SetDirectedTrueOnlyFlips ==
    (last.op = "set_directed" /\ last.value = TRUE) =>
        /\ directed
        /\ vertices = pre.vertices
        /\ adjacent = pre.adjacent
        /\ components = pre.components

\* C10: reorient() on a directed graph turns every one-way edge between
\* distinct nodes around and leaves two-way pairs, unjoined pairs and
\* self-loops (and their weights) as they were; on an undirected graph it
\* changes nothing.
C10_ReorientFlipsOneWay ==
    last.op = "reorient" =>
        IF pre.directed
        THEN /\ nodes = pre.nodes
             /\ directed
             /\ \A a, b \in InGraph :
                   IF a # b /\ (HasEdge(pre, a, b) # HasEdge(pre, b, a))
                   THEN HasEdge(G, a, b) = HasEdge(pre, b, a)
                   ELSE get_weight(G, a, b) = get_weight(pre, a, b)
        ELSE G = pre

\* a one-way edge was turned around next to a self-loop that stayed
C10_Witness ==
    /\ last.op = "reorient"
    /\ pre.directed
    /\ \E a, b \in InGraph :
          /\ a # b
          /\ HasEdge(pre, a, b) /\ ~HasEdge(pre, b, a)
          /\ HasEdge(G, b, a) /\ ~HasEdge(G, a, b)
          /\ HasEdge(pre, a, a) /\ HasEdge(G, a, a)

\* the edges of g1 and g2 between the nodes of the graph are the same, and
\* so is the weight of each (get_weight gives 0 where there is no edge)
SameEdgesAndWeights(g1, g2) ==
    \A a, b \in NodeObjs :
        /\ HasEdge(g1, a, b) = HasEdge(g2, a, b)
        /\ get_weight(g1, a, b) = get_weight(g2, a, b)

\* C11: reorient() called twice gives the graph back: the same edges, each
\* with the weight it had.
C11_ReorientTwiceRestores ==
    SameEdgesAndWeights(reorient(reorient(G)), G)

\* C12: complement() flips, for every pair of distinct nodes, whether the
\* edge is there (each direction for itself in a directed graph, the
\* connection as a whole in an undirected one), and a self-loop is there
\* afterwards exactly if it was there before.
C12_ComplementFlipsPairs ==
    last.op = "complement" =>
        /\ nodes = pre.nodes
        /\ directed = pre.directed
        /\ \A a, b \in InGraph :
              IF a # b
              THEN HasEdge(G, a, b) = ~HasEdge(pre, a, b)
              ELSE HasEdge(G, a, a) = HasEdge(pre, a, a)
        /\ ~directed =>
              \A a, b \in InGraph : HasEdge(G, a, b) = HasEdge(G, b, a)

\* the undirected path A-B, B-C became the single connection A-C
C12_Witness ==
    /\ last.op = "complement"
    /\ ~directed
    /\ Len(nodes) = 3
    /\ \E a, b, c \in InGraph :
          /\ a # b /\ b # c /\ a # c
          /\ HasEdge(pre, a, b) /\ HasEdge(pre, b, c) /\ ~HasEdge(pre, a, c)
          /\ HasEdge(G, a, c) /\ HasEdge(G, c, a)
          /\ ~HasEdge(G, a, b) /\ ~HasEdge(G, b, c)
          /\ Len(vertices) = 2

\* C13: complement() called twice gives the graph back, directed or not,
\* with or without self-loops: the same edges, each with the weight it had.
C13_ComplementTwiceRestores ==
    SameEdgesAndWeights(complement(complement(G)), G)

\* the nodes whose shortest path along edge records from the root has
\* length d
RECURSIVE NodesAtDistance(_, _, _, _)
NodesAtDistance(g, d, layer, seen) ==
    IF d = 0 THEN layer
    ELSE NodesAtDistance(g, d - 1,
            {m \in NodeObjs \ seen : \E n \in layer : HasEdge(g, n, m)},
            seen \cup {m \in NodeObjs : \E n \in layer : HasEdge(g, n, m)})

Occurrences(s, x) == Cardinality({i \in 1..Len(s) : s[i] = x})

\* C14: whenever a root is set, the bucket of depth d holds exactly the nodes
\* at shortest directed distance d from the root, bucket 0 is the root
\* alone, every node the root reaches is in one bucket only and there once,
\* and no other node is in any bucket.
C14_DistanceMapIsBFS ==
    root # 0 =>
        /\ 0 \in DOMAIN distance_from_root
        /\ distance_from_root[0] = <<root>>
        /\ \A d \in DOMAIN distance_from_root :
              /\ Range(distance_from_root[d])
                    = NodesAtDistance(G, d, {root}, {root})
              /\ \A n \in NodeObjs : Occurrences(distance_from_root[d], n) <= 1
        /\ \A d \in 0..MaxNodeObjs :
              NodesAtDistance(G, d, {root}, {root}) # {}
                 => d \in DOMAIN distance_from_root

EdgeByLabel(r, a, b) ==
    /\ NodeOf(r.labels, a) # 0
    /\ NodeOf(r.labels, b) # 0
    /\ HasEdge(r.g, NodeOf(r.labels, a), NodeOf(r.labels, b))

WeightByLabel(r, a, b) ==
    get_weight(r.g, NodeOf(r.labels, a), NodeOf(r.labels, b))

SameLabelledGraph(r1, r2) ==
    /\ r1.kind = "graph"
    /\ r2.kind = "graph"
    /\ r1.g.directed = r2.g.directed
    /\ r1.g.weighted = r2.g.weighted
    /\ Range(r1.labels) = Range(r2.labels)
    /\ \A a, b \in Range(r1.labels) :
          /\ EdgeByLabel(r1, a, b) = EdgeByLabel(r2, a, b)
          /\ EdgeByLabel(r1, a, b) =>
                WeightByLabel(r1, a, b) = WeightByLabel(r2, a, b)

\* C19: for a graph G that from_string produced, from_string(G.to_string())
\* has the same labelled nodes, the same edges with the same weights and the
\* same flags.
C19_TextRoundTrip ==
    /\ stage = "exported" => exported.kind = "str"
    /\ stage = "reloaded" => SameLabelledGraph(loaded, reloaded)

\* what a line of a file of the given kind looks like
MatchesShape(parts, isDirected, isWeighted) ==
    LET d == IF isDirected THEN 1 ELSE 0
        w == IF isWeighted THEN 1 ELSE 0
    IN  /\ Len(parts) = 2 + d + w
        /\ parts[1] \notin Arrows
        /\ isDirected => parts[2] \in Arrows
        /\ parts[2 + d] \notin Arrows
        /\ isWeighted => literal_eval(parts[3 + d]) >= 0

\* C20: from_string returns no graph whenever a line after the first does
\* not have the shape the first line set: an arrow in an undirected file, no
\* arrow in a directed one, a weight in an unweighted file, no weight in a
\* weighted one.
C20_MismatchAborts ==
    (/\ stage = "loaded"
     /\ Len(text) >= 2
     /\ Len(text[1]) >= 2
     /\ \E k \in 2..Len(text) :
           ~MatchesShape(text[k], text[1][2] \in Arrows,
                         Len(text[1]) = 3 + (IF text[1][2] \in Arrows
                                             THEN 1 ELSE 0)))
        => loaded.kind # "graph"

\* C16: evaluate_forces never moves a node that is held by a drag, whatever
\* forces are queued; it always leaves the node's force list empty, so no
\* force is left over between two updates to be applied after the release;
\* and it moves a node that is not held by the sum of the queued forces.
C16_DraggedNodeStays ==
    /\ last.op = "evaluate_forces" =>
          /\ dnodes[last.n1].forces = <<>>
          /\ dnodes[last.n1].drag = was[last.n1].drag
          /\ IF is_dragged(was[last.n1])
             THEN dnodes[last.n1].position = was[last.n1].position
             ELSE dnodes[last.n1].position
                     = VAdd(was[last.n1].position,
                            VSum(was[last.n1].forces, 1))
    /\ tick = NoTick => \A n \in NodeObjs : dnodes[n].forces = <<>>

\* a held node with a force queued that is not zero was evaluated and
\* stayed, after the pointer had moved it
C16_Witness ==
    /\ last.op = "evaluate_forces"
    /\ is_dragged(was[last.n1])
    /\ was[last.n1].drag # <<0, 0>>
    /\ VSum(was[last.n1].forces, 1) # <<0, 0>>
    /\ dnodes[last.n1].position = was[last.n1].position
    /\ dnodes[last.n1].forces = <<>>

\* C17: within one update no evaluate_forces call comes before an add_force
\* call: every node is evaluated only after all forces of all pairs are
\* queued.
C17_EvaluateAfterAllForces ==
    \A a, b \in 1..Len(log) :
        a < b => ~(log[a].op = "evaluate_forces" /\ log[b].op = "add_force")

\* the pivot of the selection as it was before the last step
PivotWas ==
    VDiv(VSum([k \in 1..Len(selected_nodes) |->
                  was[selected_nodes[k]].position], 1),
         Len(selected_nodes))

\* C18: a rotation turns every node that is weakly connected to a selected
\* node by the angle about the pivot, once, also when several selected nodes
\* are in one component, and leaves every other node where it was (stated
\* for rotations made while no node is held by a drag).
C18_RotatedOnce ==
    (/\ last.op = "wheelEvent"
     /\ Len(selected_nodes) > 0
     /\ \A n \in NodeObjs : ~is_dragged(was[n])) =>
        \A n \in InGraph :
            IF \E k \in 1..Len(selected_nodes) :
                  SameComponent(G, n, selected_nodes[k])
            THEN dnodes[n].position
                    = rotated(was[n].position, last.n1, PivotWas)
            ELSE dnodes[n].position = was[n].position

\* C21 as the text has it: zoom called with the point of the widget itself,
\* translation -= screen_anchor * (new_scale - old_scale), leaves the world
\* point under that point of the widget where it was, for every point and
\* every power, at the scale and translation of the moment.
C21_ZoomOfScreenAnchor ==
    \A p \in ScreenPoints, power \in Powers :
        apply(zoom(transformation, p, power), p) = apply(transformation, p)

\* C21: a zoom of the wheel keeps the point under the pointer fixed: the
\* world point under the pointer before the zoom is the world point under it
\* after the zoom, zoom being called with that world point,
\* translation -= to_world(screen_anchor) * (new_scale - old_scale).
C21_ZoomKeepsAnchor ==
    last.op = "zoom" =>
        apply(transformation, zoomed.position)
            = apply(zoomed.before, zoomed.position)

\* a zoom that changed the scale, from a translation that was not zero,
\* about a pointer away from the corner
C21_Witness ==
    /\ last.op = "zoom"
    /\ zoomed.before.translation # QVector(0, 0)
    /\ zoomed.before.scale # NewTransformation.scale
    /\ zoomed.position # QVector(0, 0)
    /\ transformation.scale # zoomed.before.scale
    /\ transformation.translation # zoomed.before.translation

\* the forces of every pair of the node list, queued in the order of the
\* loops of update and with no evaluate between them; jitters gives the
\* random nudge of every pair
RECURSIVE QueueAllPairs(_, _, _, _, _)
QueueAllPairs(g, st, i, j, jitters) ==
    IF i > Len(g.nodes) THEN st
    ELSE IF j > Len(g.nodes) THEN QueueAllPairs(g, st, i + 1, i + 2, jitters)
    ELSE QueueAllPairs(g,
                       PairForces(g, st, g.nodes[i], g.nodes[j],
                                  jitters[<<i, j>>]),
                       i, j + 1, jitters)

\* the forces on every node computed from the positions at the start of
\* the last update
FromSnapshot(jitters) ==
    QueueAllPairs(G, [node |-> snapshot, log |-> <<>>], 1, 2, jitters).node

JitterChoices ==
    [{ij \in (1..MaxNodeObjs) \X (1..MaxNodeObjs) : ij[1] < ij[2]} -> Jitters]

\* C22 as the text has it: after an update every node, held or not, has
\* moved by the sum of the forces computed for it from the positions at the
\* start of the update.
C22_EveryNodeMovesBySnapshotForces ==
    last.op = "updated" =>
        \E jitters \in JitterChoices :
            \A n \in InGraph :
                dnodes[n].position
                    = VAdd(snapshot[n].position,
                           VSum(FromSnapshot(jitters)[n].forces, 1))

\* C22: after an update every node that is not held by a drag has moved by
\* the sum of the forces computed for it from the positions all nodes had at
\* the start of the update, whatever was evaluated earlier in the update; a
\* held node has not moved.
C22_MovesBySnapshotForces ==
    last.op = "updated" =>
        \E jitters \in JitterChoices :
            \A n \in InGraph :
                dnodes[n].position
                    = IF is_dragged(snapshot[n])
                      THEN snapshot[n].position
                      ELSE VAdd(snapshot[n].position,
                                VSum(FromSnapshot(jitters)[n].forces, 1))

\* an update of three connected nodes, none held: the first was moved when
\* it was evaluated, before the forces between the other two were queued,
\* and the last was moved too
C22_Witness ==
    /\ last.op = "updated"
    /\ Len(nodes) = 3
    /\ \A n \in InGraph :
          /\ ~is_dragged(snapshot[n])
          /\ SameComponent(G, n, nodes[1])
    /\ dnodes[nodes[1]].position # snapshot[nodes[1]].position
    /\ dnodes[nodes[3]].position # snapshot[nodes[3]].position
    /\ \E k \in 1..Len(log) :
          /\ log[k].op = "evaluate_forces"
          /\ \E m \in (k + 1)..Len(log) : log[m].op = "add_force"

\* C23: dragging ends on release: after a mouse release has been handled
\* that leaves no button held, no node of the graph is held by a drag.
C23_ReleaseEndsDrag ==
    (/\ last.op = "mouseReleaseEvent"
     /\ mouse.left_pressed = <<>>
     /\ mouse.right_pressed = <<>>) =>
        \A n \in InGraph : ~is_dragged(dnodes[n])

\* the number of records (a, b) in the edge list
Records(a, b) ==
    Cardinality({i \in 1..Len(vertices) :
                    vertices[i].node_from = a /\ vertices[i].node_to = b})

\* C24: the edge list and the adjacency of the nodes agree: for all nodes
\* a, b of the graph, a.is_adjacent_to(b) exactly when the edge list holds
\* one record (a, b) and no more, and get_weight(a, b) is None exactly when
\* a is not adjacent to b (get_weight gives 0 for None).
C24_EdgeListMatchesAdjacency ==
    \A a, b \in InGraph :
        /\ is_adjacent_to(adjacent, a, b) <=> Records(a, b) = 1
        /\ get_weight(G, a, b) = 0 <=> ~is_adjacent_to(adjacent, a, b)

====
